---- MODULE Spec2Model ----
(***************************************************************************)
(* Narrative-processing pipeline of load_mimic.py: section filtering,      *)
(* lexicon-driven symptom extraction with a negation window, and the       *)
(* corpus frequency/length filter with its vocabulary index.               *)
(*                                                                         *)
(* A text is a sequence of one-character strings, so that the regular      *)
(* expressions of the source are evaluated character by character.         *)
(***************************************************************************)
EXTENDS Integers, Sequences, FiniteSets, TLC

VARIABLES
    pc,               \* position of the running function
    note,             \* the raw note text the run started from
    text,             \* the note text handed to the function
    parts,            \* filter_sections: re.split result
    i,                \* filter_sections: loop index (0-based, as in the source)
    filtered_parts,   \* filter_sections: kept parts
    result,           \* filter_sections: returned string
    pass,             \* 1 = first application, 2 = application to the first result
    first_result,     \* result of the first application
    symptom_set,      \* extract_symptoms_from_text: the lexicon
    text_lower,       \* extract_symptoms_from_text: text.lower()
    todo,             \* lexicon terms the for-loop has not visited yet
    found_symptoms,   \* extract_symptoms_from_text: mentions before deduplication
    unique,           \* extract_symptoms_from_text: returned list
    notes_df,         \* corpus: sequence of rows
    params,           \* corpus: min_symptoms, min_symptoms_per_note, max_symptoms_per_note
    valid_symptoms,   \* corpus: terms passing the frequency filter
    filtered_df,      \* corpus: retained rows
    symptom_to_index, \* corpus: vocabulary
    rebuilt           \* corpus: vocabulary built again from the rows in another order

vars == <<pc, note, text, parts, i, filtered_parts, result, pass, first_result,
          symptom_set, text_lower, todo, found_symptoms, unique,
          notes_df, params, valid_symptoms, filtered_df, symptom_to_index, rebuilt>>

secVars == <<parts, i, filtered_parts, result, pass, first_result>>
extVars == <<symptom_set, text_lower, todo, found_symptoms, unique>>
corpVars == <<notes_df, params, valid_symptoms, filtered_df, symptom_to_index, rebuilt>>

-----------------------------------------------------------------------------
(* Characters *)

UpperSeq == <<"A","B","C","D","E","F","G","H","I","J","K","L","M",
              "N","O","P","Q","R","S","T","U","V","W","X","Y","Z">>
LowerSeq == <<"a","b","c","d","e","f","g","h","i","j","k","l","m",
              "n","o","p","q","r","s","t","u","v","w","x","y","z">>
DigitSeq == <<"0","1","2","3","4","5","6","7","8","9">>

Range(f) == {f[k] : k \in DOMAIN f}

Upper == Range(UpperSeq)
Lower == Range(LowerSeq)
Digits == Range(DigitSeq)

\* \s of the re module on the characters of the model
Whitespace == {" ", "\t", "\n", "\r", "\f"}

\* \w of the re module
WordChars == Upper \cup Lower \cup Digits \cup {"_"}

\* the class [A-Za-z\s/&-] of the header patterns
HeaderClass == Upper \cup Lower \cup Whitespace \cup {"/", "&", "-"}

Max(S) == CHOOSE m \in S : \A k \in S : k <= m
Min(S) == CHOOSE m \in S : \A k \in S : m <= k

\* last index of the maximal run of characters of C that starts at p (p-1 if empty)
RunEnd(s, p, C) ==
    CHOOSE q \in (p - 1)..Len(s) :
        /\ \A k \in p..q : s[k] \in C
        /\ (q = Len(s) \/ s[q + 1] \notin C)

RECURSIVE Concat(_)
Concat(ss) == IF ss = <<>> THEN <<>> ELSE Head(ss) \o Concat(Tail(ss))

\* str.strip(): whitespace removed at both ends
Strip(s) ==
    LET keep == {k \in 1..Len(s) : s[k] \notin Whitespace}
    IN IF keep = {} THEN <<>> ELSE SubSeq(s, Min(keep), Max(keep))

\* str.rstrip(':'): every trailing colon removed
RStripColon(s) ==
    LET keep == {k \in 1..Len(s) : s[k] # ":"}
    IN IF keep = {} THEN <<>> ELSE SubSeq(s, 1, Max(keep))

-----------------------------------------------------------------------------
(* filter_sections *)

SocialHistory == <<"S","o","c","i","a","l"," ","H","i","s","t","o","r","y">>
MedicationsOnAdmission ==
    <<"M","e","d","i","c","a","t","i","o","n","s"," ","o","n"," ",
      "A","d","m","i","s","s","i","o","n">>
DischargeDiagnosis ==
    <<"D","i","s","c","h","a","r","g","e"," ","D","i","a","g","n","o","s","i","s">>

remove_sections == {SocialHistory, MedicationsOnAdmission, DischargeDiagnosis}

\* The pattern \n\s*[A-Z][A-Za-z\s/&-]+:\s*\n tried at position p of s: the index of
\* the last character of the match, 0 when there is none.  \s* before [A-Z] takes the
\* whole whitespace run, the class run is maximal because ':' is outside the class,
\* and the greedy \s*\n ends at the last newline of the whitespace after the colon.
MatchHeaderAt(s, p) ==
    IF p > Len(s) \/ p < 1 THEN 0
    ELSE IF s[p] # "\n" THEN 0
    ELSE LET a == RunEnd(s, p + 1, Whitespace) + 1
         IN IF a > Len(s) THEN 0
            ELSE IF s[a] \notin Upper THEN 0
            ELSE LET b == RunEnd(s, a + 1, HeaderClass)
                 IN IF b < a + 1 \/ b + 1 > Len(s) THEN 0
                    ELSE IF s[b + 1] # ":" THEN 0
                    ELSE LET w == RunEnd(s, b + 2, Whitespace)
                             nls == {k \in (b + 2)..w : s[k] = "\n"}
                         IN IF nls = {} THEN 0 ELSE Max(nls)

\* re.split(split_pattern, text) with one capturing group: the text between the
\* matches alternates with the matches themselves
RECURSIVE SplitFrom(_, _)
SplitFrom(s, pos) ==
    LET starts == {p \in pos..Len(s) : MatchHeaderAt(s, p) # 0}
    IN IF starts = {} THEN <<SubSeq(s, pos, Len(s))>>
       ELSE LET p == Min(starts)
                e == MatchHeaderAt(s, p)
            IN <<SubSeq(s, pos, p - 1), SubSeq(s, p, e)>> \o SplitFrom(s, e + 1)

ReSplit(s) == SplitFrom(s, 1)

\* re.match(r'\n\s*[A-Z][A-Za-z\s/&-]+:\s*\n', part)
IsHeaderPart(part) == MatchHeaderAt(part, 1) # 0

\* header = part.strip().rstrip(':')
HeaderName(part) == RStripColon(Strip(part))

IsRemoved(header) == header \in remove_sections

\* mutant of AppendContent: the emptiness guard of the else branch is lost
AppendContentAlways(fp, part) == Append(fp, part)

\* the else branch of the loop: a part that is no header is appended only while
\* nothing has been kept yet (the preamble)
AppendContent(fp, part) == IF fp = <<>> THEN Append(fp, part) ELSE fp

\* the branch of a header that is not in remove_sections: header + next content block
AppendHeader(fp, ps, k) ==
    IF k + 1 <= Len(ps) THEN fp \o <<ps[k], ps[k + 1]>> ELSE Append(fp, ps[k])

\* line bodies the notes of the model are made of
LineBodies ==
    { <<>>,
      <<"x", ".">>,
      <<"A", "b">>,
      <<"A", "b", ":">>,
      SocialHistory \o <<":">>,
      <<" ">> \o SocialHistory \o <<":", " ">> }

MaxLines == 5

RECURSIVE JoinLines(_)
JoinLines(ls) ==
    IF ls = <<>> THEN <<>>
    ELSE IF Len(ls) = 1 THEN ls[1]
    ELSE ls[1] \o <<"\n">> \o JoinLines(Tail(ls))

NoteTexts == UNION {{JoinLines(f) : f \in [1..n -> LineBodies]} : n \in 0..MaxLines}

InitSections ==
    /\ note \in NoteTexts
    /\ text = note
    /\ pc = "start"
    /\ parts = <<>>
    /\ i = 0
    /\ filtered_parts = <<>>
    /\ result = <<>>
    /\ pass = 1
    /\ first_result = <<>>
    /\ symptom_set = {}
    /\ text_lower = <<>>
    /\ todo = {}
    /\ found_symptoms = <<>>
    /\ unique = <<>>
    /\ notes_df = <<>>
    /\ params = <<>>
    /\ valid_symptoms = {}
    /\ filtered_df = <<>>
    /\ symptom_to_index = <<>>
    /\ rebuilt = <<>>

\* parts = re.split(split_pattern, text); filtered_parts = []; i = 0
Split ==
    /\ pc = "start"
    /\ parts' = ReSplit(text)
    /\ i' = 0
    /\ filtered_parts' = <<>>
    /\ pc' = "loop"
    /\ UNCHANGED <<note, text, result, pass, first_result, extVars, corpVars>>

\* loop body, header not in remove_sections
KeepHeader ==
    /\ pc = "loop"
    /\ i < Len(parts)
    /\ IsHeaderPart(parts[i + 1])
    /\ ~IsRemoved(HeaderName(parts[i + 1]))
    /\ filtered_parts' = AppendHeader(filtered_parts, parts, i + 1)
    /\ i' = i + 1
    /\ UNCHANGED <<pc, note, text, parts, result, pass, first_result, extVars, corpVars>>

\* loop body, header in remove_sections: header and content are skipped
SkipHeader ==
    /\ pc = "loop"
    /\ i < Len(parts)
    /\ IsHeaderPart(parts[i + 1])
    /\ IsRemoved(HeaderName(parts[i + 1]))
    /\ i' = i + 2
    /\ UNCHANGED <<pc, note, text, parts, filtered_parts, result, pass, first_result,
                   extVars, corpVars>>

\* loop body, part that is no header
Content ==
    /\ pc = "loop"
    /\ i < Len(parts)
    /\ ~IsHeaderPart(parts[i + 1])
    /\ filtered_parts' = AppendContent(filtered_parts, parts[i + 1])
    /\ i' = i + 1
    /\ UNCHANGED <<pc, note, text, parts, result, pass, first_result, extVars, corpVars>>

\* return ''.join(filtered_parts)
Join ==
    /\ pc = "loop"
    /\ i >= Len(parts)
    /\ result' = Concat(filtered_parts)
    /\ pc' = "done"
    /\ UNCHANGED <<note, text, parts, i, filtered_parts, pass, first_result,
                   extVars, corpVars>>

\* the filter applied to its own result
Reapply ==
    /\ pc = "done"
    /\ pass = 1
    /\ first_result' = result
    /\ text' = result
    /\ pass' = 2
    /\ pc' = "start"
    /\ UNCHANGED <<note, parts, i, filtered_parts, result, extVars, corpVars>>

NextSections == Split \/ KeepHeader \/ SkipHeader \/ Content \/ Join \/ Reapply

SpecSections == InitSections /\ [][NextSections]_vars

-----------------------------------------------------------------------------
(* Section claims *)

\* whitespace inside one line
Blank == Whitespace \ {"\n"}

\* the characters a header name is made of: letters, spaces, '/', '&', '-'
NameClass == Upper \cup Lower \cup {" ", "/", "&", "-"}

LineStarts(s) == {p \in 1..Len(s) : p = 1 \/ s[p - 1] = "\n"}

\* A header line as the specification words it, starting at line start p: optional
\* leading whitespace, an uppercase letter, one or more name characters, a colon,
\* optional trailing whitespace, newline.  The value is <<first, last>> of the name,
\* <<0, 0>> when the line is no header line.
HeaderLineAt(s, p) ==
    LET a == RunEnd(s, p, Blank) + 1
    IN IF a > Len(s) THEN <<0, 0>>
       ELSE IF s[a] \notin Upper THEN <<0, 0>>
       ELSE LET b == RunEnd(s, a + 1, NameClass)
            IN IF b < a + 1 \/ b + 1 > Len(s) THEN <<0, 0>>
               ELSE IF s[b + 1] # ":" THEN <<0, 0>>
               ELSE LET w == RunEnd(s, b + 2, Blank)
                    IN IF w + 1 <= Len(s) /\ s[w + 1] = "\n" THEN <<a, b>> ELSE <<0, 0>>

HeaderLineStarts(s) == {p \in LineStarts(s) : HeaderLineAt(s, p) # <<0, 0>>}

HeaderLineName(s, p) ==
    LET ab == HeaderLineAt(s, p) IN Strip(SubSeq(s, ab[1], ab[2]))

\* the elements of a set of integers in ascending order
RECURSIVE Ascending(_)
Ascending(S) == IF S = {} THEN <<>> ELSE <<Min(S)>> \o Ascending(S \ {Min(S)})

\* the header names the specification's segmentation finds, in text order
HeaderLineNames(s) ==
    LET ps == Ascending(HeaderLineStarts(s))
    IN [k \in 1..Len(ps) |-> HeaderLineName(s, ps[k])]

\* the header names the split of the source finds, in text order
SplitHeaderNames(ps) == [k \in 1..(Len(ps) \div 2) |-> HeaderName(ps[2 * k])]

\* character k of s survives the removal the specification describes: the header
\* line that opens its block, if any, is not in the removal set
Retained(s, k) ==
    LET hs == {p \in HeaderLineStarts(s) : p <= k}
    IN hs = {} \/ ~IsRemoved(HeaderLineName(s, Max(hs)))

\* the characters of s that are no whitespace, in order
RECURSIVE Visible(_)
Visible(s) ==
    IF s = <<>> THEN <<>>
    ELSE IF Head(s) \in Whitespace THEN Visible(Tail(s))
    ELSE <<Head(s)>> \o Visible(Tail(s))

RECURSIVE RetainedFrom(_, _)
RetainedFrom(s, k) ==
    IF k > Len(s) THEN <<>>
    ELSE IF Retained(s, k) THEN <<s[k]>> \o RetainedFrom(s, k + 1)
    ELSE RetainedFrom(s, k + 1)

\* the text the specification's section filter returns
SpecifiedFilter(s) == RetainedFrom(s, 1)

FirstPassDone == pc = "done" /\ pass = 1
SecondPassDone == pc = "done" /\ pass = 2

\* C1: filter_sections returns the preamble and every block whose header is not in
\* the removal set, in order, and drops every block whose header line is in the
\* removal set wherever that line occurs.  Compared up to whitespace, so that the
\* placement of the newlines around a removed block plays no part.
C1_RemovesEveryListedBlock ==
    FirstPassDone => Visible(result) = Visible(SpecifiedFilter(note))

\* C5: filter_sections is idempotent: applied to its own result it returns that result.
C5_Idempotent == SecondPassDone => result = first_result

\* a note from which the first application removed a block and whose result still
\* holds a header that the second application kept
C5_Witness ==
    /\ SecondPassDone
    /\ first_result # note
    /\ Len(parts) >= 3
    /\ result = first_result

RECURSIVE TotalLen(_)
TotalLen(ps) == IF ps = <<>> THEN 0 ELSE Len(Head(ps)) + TotalLen(Tail(ps))

\* position in the text of the first character of part k
PartStart(ps, k) == 1 + TotalLen(SubSeq(ps, 1, k - 1))

\* the header parts of the split that hold the first character of the header line
\* starting at p (whatever name the split gives the header)
HeaderPartsOf(s, ps, p) ==
    {k \in 1..Len(ps) :
        /\ k % 2 = 0
        /\ PartStart(ps, k) <= p
        /\ p < PartStart(ps, k) + Len(ps[k])}

\* the split found the header line at p and gave it a block with empty content
EmptyBlockAt(s, ps, p) ==
    \E k \in HeaderPartsOf(s, ps, p) : k + 1 <= Len(ps) /\ ps[k + 1] = <<>>

\* first position after the line that starts at p
NextLineStart(s, p) == Min({q \in p..Len(s) : s[q] = "\n"}) + 1

\* C10: in the segmentation of filter_sections a text with no header line is one
\* preamble block holding the whole text; of two header lines that follow each other
\* both are recognised and the first opens a block with empty content; a header line
\* that ends the text is recognised and opens a block with empty content.  The header
\* lines are taken after the first line of the text.
C10_SegmentationEdgeCases ==
    (pc = "loop" /\ pass = 1) =>
        /\ (HeaderLineStarts(note) = {} => parts = <<note>>)
        /\ \A p \in HeaderLineStarts(note) \ {1} :
               LET q == NextLineStart(note, p)
               IN /\ (q \in HeaderLineStarts(note) =>
                         /\ EmptyBlockAt(note, parts, p)
                         /\ HeaderPartsOf(note, parts, q) # {})
                  /\ (q = Len(note) + 1 => EmptyBlockAt(note, parts, p))

-----------------------------------------------------------------------------
(* extract_symptoms_from_text *)

\* characters in ascending code point order, for str.lower() and string comparison
CodeOrder ==
    <<"\t", "\n", "\f", "\r", " ", "&", "-", ".", "/">> \o DigitSeq \o <<":">>
    \o UpperSeq \o <<"\\", "_">> \o LowerSeq

Ord(c) == CHOOSE k \in DOMAIN CodeOrder : CodeOrder[k] = c

\* str.lower() on one character
LowerChar(c) ==
    IF c \in Upper THEN LowerSeq[CHOOSE k \in DOMAIN UpperSeq : UpperSeq[k] = c] ELSE c

ToLower(s) == [k \in 1..Len(s) |-> LowerChar(s[k])]

\* One element of a pattern: one character of a set, or one or more of them (greedy).
Lit(c) == [set |-> {c}, plus |-> FALSE]
Plus(C) == [set |-> C, plus |-> TRUE]

RECURSIVE Lits(_)
Lits(w) == IF w = <<>> THEN <<>> ELSE <<Lit(Head(w))>> \o Lits(Tail(w))

\* \b before position pos of s (between s[pos-1] and s[pos])
WordBoundary(s, pos) ==
    LET isw(k) == k >= 1 /\ k <= Len(s) /\ s[k] \in WordChars
    IN isw(pos - 1) # isw(pos)

\* atoms[k..] followed by \b matched at pos: the position after the match the
\* backtracking matcher finds first (longest repetitions first), 0 when none
RECURSIVE MatchAtoms(_, _, _, _)
MatchAtoms(atoms, k, s, pos) ==
    IF k > Len(atoms) THEN (IF WordBoundary(s, pos) THEN pos ELSE 0)
    ELSE IF ~atoms[k].plus
         THEN IF pos <= Len(s) /\ s[pos] \in atoms[k].set
              THEN MatchAtoms(atoms, k + 1, s, pos + 1)
              ELSE 0
         ELSE LET r == RunEnd(s, pos, atoms[k].set)
                  ok == {j \in pos..r : MatchAtoms(atoms, k + 1, s, j + 1) # 0}
              IN IF ok = {} THEN 0 ELSE MatchAtoms(atoms, k + 1, s, Max(ok) + 1)

\* \b atoms \b matched at position p
MatchAt(atoms, s, p) == IF WordBoundary(s, p) THEN MatchAtoms(atoms, 1, s, p) ELSE 0

\* re.escape(sym).replace(' ', r'\s+'): re.escape turns a space into backslash-space,
\* so the replacement yields an escaped backslash followed by s+ : the pattern asks
\* for a literal backslash and one or more letters s where the term has a space
RECURSIVE EscapedPattern(_)
EscapedPattern(sym) ==
    IF sym = <<>> THEN <<>>
    ELSE (IF Head(sym) = " " THEN <<Lit("\\"), Plus({"s"})>> ELSE <<Lit(Head(sym))>>)
         \o EscapedPattern(Tail(sym))

\* list(re.finditer(pattern, text_lower)): start positions of the successive
\* non-overlapping matches, from position pos on
RECURSIVE FindStarts(_, _, _)
FindStarts(atoms, s, pos) ==
    LET starts == {p \in pos..Len(s) : MatchAt(atoms, s, p) # 0}
    IN IF starts = {} THEN <<>>
       ELSE <<Min(starts)>> \o FindStarts(atoms, s, MatchAt(atoms, s, Min(starts)))

Window == 50

\* mutant of PreText: the look-back is a tenth of the window
PreTextNarrow(s, start) ==
    SubSeq(s, (IF start - (Window \div 10) > 1 THEN start - (Window \div 10) ELSE 1),
           start - 1)

\* pre_text = text_lower[max(0, start - 50):start], start being 1-based here
PreText(s, start) ==
    SubSeq(s, (IF start - Window > 1 THEN start - Window ELSE 1), start - 1)

Word(w) == Lits(w)
Ws == <<Plus(Whitespace)>>

\* The alternatives of NEGATION_PATTERNS, denies? and the optional (history\s+of\s+)?
\* written out; each is wrapped in \b ... \b by MatchAt.
NegationAlternatives ==
    { Word(<<"d","e","n","i","e">>),
      Word(<<"d","e","n","i","e","s">>),
      Word(<<"d","e","n","i","e","d">>),
      Word(<<"n","o">>) \o Ws,
      Word(<<"n","o">>) \o Ws \o Word(<<"h","i","s","t","o","r","y">>) \o Ws
          \o Word(<<"o","f">>) \o Ws,
      Word(<<"w","i","t","h","o","u","t">>),
      Word(<<"n","e","v","e","r">>) \o Ws \o Word(<<"h","a","d">>),
      Word(<<"n","o","t">>) \o Ws \o Word(<<"c","o","m","p","l","a","i","n","i","n","g">>),
      Word(<<"n","o","t">>) \o Ws \o Word(<<"r","e","p","o","r","t">>),
      Word(<<"n","o","t">>) \o Ws \o Word(<<"h","a","v","e">>),
      Word(<<"n","o","t">>) \o Ws
          \o Word(<<"e","x","p","e","r","i","e","n","c","i","n","g">>),
      Word(<<"a","b","s","e","n","c","e">>) \o Ws \o Word(<<"o","f">>) }

\* re.search(neg_pat, pre_text)
IsNegated(pre_text) ==
    \E alt \in NegationAlternatives :
        \E p \in 1..(Len(pre_text) + 1) : MatchAt(alt, pre_text, p) # 0

\* the mentions the loop body appends for one term
MentionsOf(sym, s) ==
    LET starts == FindStarts(EscapedPattern(sym), s, 1)
    IN [k \in 1..Len(starts) |->
           [symptom |-> sym, is_negated |-> IsNegated(PreText(s, starts[k]))]]

\* mutant of DedupKey: the negation flag is left out of the key
DedupKeyTermOnly(item) == <<item.symptom>>

\* key = (item['symptom'], item['is_negated'])
DedupKey(item) == <<item.symptom, item.is_negated>>

\* the deduplication loop: first occurrence of every key, in order
RECURSIVE DedupFrom(_, _, _, _)
DedupFrom(items, k, seen, acc) ==
    IF k > Len(items) THEN acc
    ELSE IF DedupKey(items[k]) \notin seen
         THEN DedupFrom(items, k + 1, seen \cup {DedupKey(items[k])}, Append(acc, items[k]))
         ELSE DedupFrom(items, k + 1, seen, acc)

Deduplicate(items) == DedupFrom(items, 1, {}, <<>>)

\* "a precedes b" in the code point order of strings
RECURSIVE StrLess(_, _)
StrLess(a, b) ==
    IF b = <<>> THEN FALSE
    ELSE IF a = <<>> THEN TRUE
    ELSE IF Head(a) # Head(b) THEN Ord(Head(a)) < Ord(Head(b))
    ELSE StrLess(Tail(a), Tail(b))

\* sorted(...) on a set of strings
RECURSIVE SortedStrings(_)
SortedStrings(S) ==
    IF S = {} THEN <<>>
    ELSE LET m == CHOOSE x \in S : \A y \in S \ {x} : StrLess(x, y)
         IN <<m>> \o SortedStrings(S \ {m})

Fever == <<"f","e","v","e","r">>
Chills == <<"c","h","i","l","l","s">>
ChestPain == <<"c","h","e","s","t"," ","p","a","i","n">>

\* the terms of SYMPTOMS the model works with
SYMPTOMS == {Fever, Chills, ChestPain}

\* the lexicons handed to the extractor
Lexicons == {{Fever, Chills}, SYMPTOMS}

\* a run of letters long enough to push a cue to the edge of the look-back window
Filler == [k \in 1..(Window - 4) |-> "x"]

Words ==
    { <<"n","o">>,
      <<"d","e","n","i","e","s">>,
      <<"d","e","n","y">>,
      <<"F","e","v","e","r">>,
      Chills,
      ChestPain,
      Filler }

MaxWords == 4

RECURSIVE JoinWords(_)
JoinWords(ws) ==
    IF ws = <<>> THEN <<>>
    ELSE IF Len(ws) = 1 THEN ws[1]
    ELSE ws[1] \o <<" ">> \o JoinWords(Tail(ws))

Sentence ==
    <<"P","a","t","i","e","n","t"," ","d","e","n","i","e","s"," ","f","e","v","e","r",
      " ","b","u","t"," ","r","e","p","o","r","t","s"," ","c","h","i","l","l","s",".">>

\* a TEXT cell without text (NaN)
NaN == <<"NaN">>

ExtractTexts ==
    UNION {{JoinWords(f) : f \in [1..n -> Words]} : n \in 0..MaxWords}
    \cup {Sentence, NaN}

InitExtract ==
    /\ note \in ExtractTexts
    /\ text = note
    /\ symptom_set \in Lexicons
    /\ pc = "start"
    /\ text_lower = <<>>
    /\ todo = {}
    /\ found_symptoms = <<>>
    /\ unique = <<>>
    /\ parts = <<>>
    /\ i = 0
    /\ filtered_parts = <<>>
    /\ result = <<>>
    /\ pass = 1
    /\ first_result = <<>>
    /\ notes_df = <<>>
    /\ params = <<>>
    /\ valid_symptoms = {}
    /\ filtered_df = <<>>
    /\ symptom_to_index = <<>>
    /\ rebuilt = <<>>

\* if pd.isna(text): return []
ReturnNa ==
    /\ pc = "start"
    /\ text = NaN
    /\ unique' = <<>>
    /\ pc' = "done"
    /\ UNCHANGED <<note, text, symptom_set, text_lower, todo, found_symptoms,
                   secVars, corpVars>>

\* text_lower = text.lower(); found_symptoms = []
LowerText ==
    /\ pc = "start"
    /\ text # NaN
    /\ text_lower' = ToLower(text)
    /\ found_symptoms' = <<>>
    /\ todo' = symptom_set
    /\ pc' = "scan"
    /\ UNCHANGED <<note, text, symptom_set, unique, secVars, corpVars>>

\* one iteration of "for sym in symptom_set": a set is iterated in an order the
\* program does not fix, so the next term is any term not visited yet
ScanTerm ==
    /\ pc = "scan"
    /\ \E sym \in todo :
          /\ found_symptoms' = found_symptoms \o MentionsOf(sym, text_lower)
          /\ todo' = todo \ {sym}
    /\ UNCHANGED <<pc, note, text, symptom_set, text_lower, unique, secVars, corpVars>>

\* the deduplication loop and the return
Dedup ==
    /\ pc = "scan"
    /\ todo = {}
    /\ unique' = Deduplicate(found_symptoms)
    /\ pc' = "done"
    /\ UNCHANGED <<note, text, symptom_set, text_lower, todo, found_symptoms,
                   secVars, corpVars>>

NextExtract == ReturnNa \/ LowerText \/ ScanTerm \/ Dedup

SpecExtract == InitExtract /\ [][NextExtract]_vars

-----------------------------------------------------------------------------
(* Extraction claims *)

Mention(t, n) == [symptom |-> t, is_negated |-> n]

ExtractDone == pc = "done" /\ note # NaN

\* the (term, negated) pairs of the matches the term patterns find in the text
MatchedPairs ==
    UNION {Range(MentionsOf(sym, ToLower(note))) : sym \in symptom_set}

\* C2 as stated: on "Patient denies fever but reports chills." with lexicon
\* {fever, chills} the extractor returns the mentions (fever, negated) and
\* (chills, affirmed).
C2_SentenceAsStated ==
    (ExtractDone /\ note = Sentence /\ symptom_set = {Fever, Chills}) =>
        /\ Len(unique) = 2
        /\ Range(unique) = {Mention(Fever, TRUE), Mention(Chills, FALSE)}

\* C2 as amended: on that sentence the extractor returns exactly two mentions,
\* (fever, negated) and (chills, negated): "denies" lies within the 50 characters
\* before "chills".
C2_SentenceBothNegated ==
    (ExtractDone /\ note = Sentence /\ symptom_set = {Fever, Chills}) =>
        /\ Len(unique) = 2
        /\ Range(unique) = {Mention(Fever, TRUE), Mention(Chills, TRUE)}

C2_Witness ==
    /\ ExtractDone
    /\ note = Sentence
    /\ symptom_set = {Fever, Chills}
    /\ Len(found_symptoms) = 2

\* The cues as the specification lists them, each a whole word or phrase:
\* deny, denies, denied, no, no history of, without, never had, not complaining,
\* not report, not have, not experiencing, absence of.
SpecifiedCues ==
    { Word(<<"d","e","n","y">>),
      Word(<<"d","e","n","i","e","s">>),
      Word(<<"d","e","n","i","e","d">>),
      Word(<<"n","o">>),
      Word(<<"n","o">>) \o Ws \o Word(<<"h","i","s","t","o","r","y">>) \o Ws
          \o Word(<<"o","f">>),
      Word(<<"w","i","t","h","o","u","t">>),
      Word(<<"n","e","v","e","r">>) \o Ws \o Word(<<"h","a","d">>),
      Word(<<"n","o","t">>) \o Ws \o Word(<<"c","o","m","p","l","a","i","n","i","n","g">>),
      Word(<<"n","o","t">>) \o Ws \o Word(<<"r","e","p","o","r","t">>),
      Word(<<"n","o","t">>) \o Ws \o Word(<<"h","a","v","e">>),
      Word(<<"n","o","t">>) \o Ws
          \o Word(<<"e","x","p","e","r","i","e","n","c","i","n","g">>),
      Word(<<"a","b","s","e","n","c","e">>) \o Ws \o Word(<<"o","f">>) }

WindowHasCue(pre_text) ==
    \E cue \in SpecifiedCues :
        \E p \in 1..(Len(pre_text) + 1) : MatchAt(cue, pre_text, p) # 0

\* the pairs the specification's rule gives the matches of the term patterns
SpecifiedPairs ==
    LET s == ToLower(note)
    IN UNION {{Mention(sym, WindowHasCue(PreText(s, p))) :
                  p \in Range(FindStarts(EscapedPattern(sym), s, 1))} :
              sym \in symptom_set}

\* C3: every match of a lexicon term is tagged negated exactly when the 50
\* characters before it hold one of the listed cues as a whole word or phrase,
\* a cue directly before the term included.
C3_NegatedIffCueInWindow == ExtractDone => Range(unique) = SpecifiedPairs

RECURSIVE MentionsInOrder(_, _)
MentionsInOrder(terms, s) ==
    IF terms = <<>> THEN <<>>
    ELSE MentionsOf(Head(terms), s) \o MentionsInOrder(Tail(terms), s)

\* C4: whatever order the lexicon set is iterated in, the extractor returns the
\* same sequence of mentions, the one ordered by the lexicographic order of the terms.
C4_OrderIndependent ==
    ExtractDone =>
        unique = Deduplicate(MentionsInOrder(SortedStrings(symptom_set), ToLower(note)))

-----------------------------------------------------------------------------
(* filter_by_freq_and_length and build_symptom_dict *)

MaxNotes == 2
MaxThreshold == 2

\* lists of distinct terms: what the deduplicated, affirmed mentions of a note are
DistinctLists ==
    UNION {{f \in [1..n -> SYMPTOMS] : \A a, b \in 1..n : f[a] = f[b] => a = b} :
           n \in 0..Cardinality(SYMPTOMS)}

\* [s for lst in notes_df[column] for s in lst]
RECURSIVE Flatten(_, _)
Flatten(df, column) ==
    IF df = <<>> THEN <<>> ELSE Head(df)[column] \o Flatten(Tail(df), column)

\* collections.Counter(all_symptoms)[sym]
Count(all_symptoms, sym) ==
    Cardinality({k \in 1..Len(all_symptoms) : all_symptoms[k] = sym})

\* mutant of ValidSymptoms: strict comparison with the threshold
ValidSymptomsStrict(all_symptoms, min_symptoms) ==
    {sym \in Range(all_symptoms) : Count(all_symptoms, sym) > min_symptoms}

\* {sym for sym, cnt in symptom_counts.items() if cnt >= min_symptoms}
ValidSymptoms(all_symptoms, min_symptoms) ==
    {sym \in Range(all_symptoms) : Count(all_symptoms, sym) >= min_symptoms}

\* [s for s in lst if s in valid]
RECURSIVE KeepValid(_, _)
KeepValid(lst, valid) ==
    IF lst = <<>> THEN <<>>
    ELSE (IF Head(lst) \in valid THEN <<Head(lst)>> ELSE <<>>) \o KeepValid(Tail(lst), valid)

\* mutant of Truncated: the last n elements instead of the first
TruncatedTail(lst, n) ==
    IF Len(lst) <= n THEN lst ELSE SubSeq(lst, Len(lst) - n + 1, Len(lst))

\* lst[:n] for n >= 0
Truncated(lst, n) == IF Len(lst) <= n THEN lst ELSE SubSeq(lst, 1, n)

\* notes_df[notes_df['SYMPTOMS_TRUNCATED'].apply(len) >= min_symptoms_per_note]
RECURSIVE LongEnough(_, _)
LongEnough(df, min_per_note) ==
    IF df = <<>> THEN <<>>
    ELSE (IF Len(Head(df).SYMPTOMS_TRUNCATED) >= min_per_note THEN <<Head(df)>> ELSE <<>>)
         \o LongEnough(Tail(df), min_per_note)

\* mutant of BuildSymptomDict: indices start at 1
BuildSymptomDictFromOne(df) ==
    LET unique_symptoms == SortedStrings(Range(Flatten(df, "SYMPTOMS_FINAL")))
    IN [sym \in Range(unique_symptoms) |->
           CHOOSE k \in 1..Len(unique_symptoms) : unique_symptoms[k] = sym]

\* build_symptom_dict: enumerate(sorted(set(all_symptoms)))
BuildSymptomDict(df) ==
    LET unique_symptoms == SortedStrings(Range(Flatten(df, "SYMPTOMS_FINAL")))
    IN [sym \in Range(unique_symptoms) |->
           (CHOOSE k \in 1..Len(unique_symptoms) : unique_symptoms[k] = sym) - 1]

Row(k, lst) == [id |-> k, SYMPTOMS_POS |-> lst]

InitCorpus ==
    /\ \E n \in 0..MaxNotes : \E f \in [1..n -> DistinctLists] :
          notes_df = [k \in 1..n |-> Row(k, f[k])]
    /\ params \in [min_symptoms : 1..MaxThreshold,
                   min_symptoms_per_note : 1..MaxThreshold,
                   max_symptoms_per_note : 1..(MaxThreshold + 1)]
    /\ pc = "count"
    /\ valid_symptoms = {}
    /\ filtered_df = <<>>
    /\ symptom_to_index = <<>>
    /\ rebuilt = <<>>
    /\ note = <<>>
    /\ text = <<>>
    /\ symptom_set = {}
    /\ text_lower = <<>>
    /\ todo = {}
    /\ found_symptoms = <<>>
    /\ unique = <<>>
    /\ parts = <<>>
    /\ i = 0
    /\ filtered_parts = <<>>
    /\ result = <<>>
    /\ pass = 1
    /\ first_result = <<>>

nonCorpus == <<note, text, secVars, extVars>>

\* frequency filtering: the Counter over all affirmed terms and the valid set
CountFrequencies ==
    /\ pc = "count"
    /\ valid_symptoms' = ValidSymptoms(Flatten(notes_df, "SYMPTOMS_POS"), params.min_symptoms)
    /\ pc' = "valid"
    /\ UNCHANGED <<notes_df, params, filtered_df, symptom_to_index, rebuilt, nonCorpus>>

\* notes_df['SYMPTOMS_VALID'] = ...
KeepValidPerNote ==
    /\ pc = "valid"
    /\ notes_df' = [k \in DOMAIN notes_df |->
           ("SYMPTOMS_VALID" :> KeepValid(notes_df[k].SYMPTOMS_POS, valid_symptoms))
           @@ notes_df[k]]
    /\ pc' = "truncate"
    /\ UNCHANGED <<params, valid_symptoms, filtered_df, symptom_to_index, rebuilt, nonCorpus>>

\* notes_df['SYMPTOMS_TRUNCATED'] = ...
TruncatePerNote ==
    /\ pc = "truncate"
    /\ notes_df' = [k \in DOMAIN notes_df |->
           ("SYMPTOMS_TRUNCATED" :>
               Truncated(notes_df[k].SYMPTOMS_VALID, params.max_symptoms_per_note))
           @@ notes_df[k]]
    /\ pc' = "drop"
    /\ UNCHANGED <<params, valid_symptoms, filtered_df, symptom_to_index, rebuilt, nonCorpus>>

\* the length filter, SYMPTOMS_FINAL and the return
DropShortNotes ==
    /\ pc = "drop"
    /\ LET kept == LongEnough(notes_df, params.min_symptoms_per_note)
       IN filtered_df' = [k \in DOMAIN kept |->
              ("SYMPTOMS_FINAL" :> kept[k].SYMPTOMS_TRUNCATED) @@ kept[k]]
    /\ pc' = "filtered"
    /\ UNCHANGED <<notes_df, params, valid_symptoms, symptom_to_index, rebuilt, nonCorpus>>

\* symptom_to_index = build_symptom_dict(final_notes_df)
BuildDict ==
    /\ pc = "filtered"
    /\ symptom_to_index' = BuildSymptomDict(filtered_df)
    /\ pc' = "built"
    /\ UNCHANGED <<notes_df, params, valid_symptoms, filtered_df, rebuilt, nonCorpus>>

\* build_symptom_dict called again on the same rows taken in any order
Rebuild ==
    /\ pc = "built"
    /\ \E perm \in [DOMAIN filtered_df -> DOMAIN filtered_df] :
          /\ \A a, b \in DOMAIN perm : perm[a] = perm[b] => a = b
          /\ rebuilt' = BuildSymptomDict([k \in DOMAIN filtered_df |-> filtered_df[perm[k]]])
    /\ pc' = "rebuilt"
    /\ UNCHANGED <<notes_df, params, valid_symptoms, filtered_df, symptom_to_index, nonCorpus>>

NextCorpus ==
    CountFrequencies \/ KeepValidPerNote \/ TruncatePerNote \/ DropShortNotes
    \/ BuildDict \/ Rebuild

SpecCorpus == InitCorpus /\ [][NextCorpus]_vars

-----------------------------------------------------------------------------
(* Corpus claims *)

Counted == pc \in {"valid", "truncate", "drop", "filtered", "built", "rebuilt"}
Filtered == pc \in {"filtered", "built", "rebuilt"}

\* number of notes whose affirmed list holds the term
NotesWith(sym) ==
    Cardinality({k \in DOMAIN notes_df : sym \in Range(notes_df[k].SYMPTOMS_POS)})

\* C6: with distinct terms in every affirmed list, a term is valid exactly when the
\* number of notes holding it, counted over the whole corpus, is at least min_symptoms.
C6_ValidIffFrequent ==
    Counted =>
        \A sym \in SYMPTOMS :
            sym \in valid_symptoms <=> NotesWith(sym) >= params.min_symptoms

\* one term in exactly min_symptoms notes and one in exactly min_symptoms - 1 notes
C6_Witness ==
    /\ Counted
    /\ \E sym \in SYMPTOMS :
          NotesWith(sym) = params.min_symptoms /\ sym \in valid_symptoms
    /\ \E sym \in SYMPTOMS :
          /\ NotesWith(sym) = params.min_symptoms - 1
          /\ NotesWith(sym) >= 1
          /\ sym \notin valid_symptoms

\* positions of the valid terms in an affirmed list
ValidPositions(lst) == {k \in 1..Len(lst) : lst[k] \in valid_symptoms}

\* the first n valid terms of an affirmed list, in their order in the list
FirstValid(lst, n) ==
    LET ps == Ascending(ValidPositions(lst))
        m == IF Len(ps) <= n THEN Len(ps) ELSE n
    IN [k \in 1..m |-> lst[ps[k]]]

RetainedIds == {filtered_df[k].id : k \in DOMAIN filtered_df}

\* C7: a note is retained exactly when the first max_symptoms_per_note valid terms of
\* its affirmed list number at least min_symptoms_per_note; a retained note's
\* SYMPTOMS_FINAL is that prefix, so its length lies between the two parameters.
C7_RetainedIffLongEnough ==
    Filtered =>
        /\ \A k \in DOMAIN notes_df :
              notes_df[k].id \in RetainedIds <=>
                  Len(FirstValid(notes_df[k].SYMPTOMS_POS, params.max_symptoms_per_note))
                      >= params.min_symptoms_per_note
        /\ \A k \in DOMAIN filtered_df :
              /\ filtered_df[k].SYMPTOMS_FINAL =
                     FirstValid(filtered_df[k].SYMPTOMS_POS, params.max_symptoms_per_note)
              /\ Len(filtered_df[k].SYMPTOMS_FINAL) >= params.min_symptoms_per_note
              /\ Len(filtered_df[k].SYMPTOMS_FINAL) <= params.max_symptoms_per_note
        /\ \A a, b \in DOMAIN filtered_df : a < b => filtered_df[a].id < filtered_df[b].id

\* a retained note cut to the cap, holding exactly min_symptoms_per_note terms, next
\* to a dropped note holding one term less
C7_Witness ==
    /\ Filtered
    /\ \E k \in DOMAIN filtered_df :
          /\ Cardinality(ValidPositions(filtered_df[k].SYMPTOMS_POS))
                 > params.max_symptoms_per_note
          /\ Len(filtered_df[k].SYMPTOMS_FINAL) = params.min_symptoms_per_note
    /\ \E k \in DOMAIN notes_df :
          /\ notes_df[k].id \notin RetainedIds
          /\ Len(notes_df[k].SYMPTOMS_TRUNCATED) = params.min_symptoms_per_note - 1

FinalTerms == UNION {Range(filtered_df[k].SYMPTOMS_FINAL) : k \in DOMAIN filtered_df}

\* C8: the vocabulary maps exactly the terms of the surviving notes' SYMPTOMS_FINAL,
\* one-to-one, onto 0..n-1, each term to its rank in ascending lexicographic order,
\* and building it again from the same notes in any order gives the same mapping.
C8_VocabularyIsRank ==
    /\ pc \in {"built", "rebuilt"} =>
          /\ DOMAIN symptom_to_index = FinalTerms
          /\ \A sym \in FinalTerms :
                symptom_to_index[sym] =
                    Cardinality({other \in FinalTerms : StrLess(other, sym)})
          /\ {symptom_to_index[sym] : sym \in FinalTerms}
                 = 0..(Cardinality(FinalTerms) - 1)
    /\ pc = "rebuilt" => rebuilt = symptom_to_index

\* a vocabulary of all three terms rebuilt from two surviving notes
C8_Witness ==
    /\ pc = "rebuilt"
    /\ Len(filtered_df) >= 2
    /\ Cardinality(FinalTerms) = Cardinality(SYMPTOMS)
    /\ symptom_to_index[Fever] = 2

====
